---- MODULE Spec2Model ----
(***************************************************************************)
(* Rate limiter and rate-limited batch runner of the by-law PDF extraction *)
(* scripts (BatchParseAndExtractBylawPDFs.py and its copies).              *)
(*                                                                         *)
(* Time is counted in whole seconds since local midnight of day 0, so the  *)
(* calendar date of an instant t is t \div DaySecs.                        *)
(***************************************************************************)
EXTENDS Integers, Sequences, FiniteSets, TLC

\* ------------------------------------------------------------------------
\* Program constants
\* ------------------------------------------------------------------------
MinuteSecs == 60
DaySecs == 86400
BaseWait == 5
WaitBuffer == 1
WaitCap == 60
max_retries == 3
retry_delay == 2
LargeTokenLimit == 10000

\* ------------------------------------------------------------------------
\* Bounds of the model
\* ------------------------------------------------------------------------
MaxRecords == 3
ClockSpan == 5
RunSpan == 200
NumJobs == 2
MaxFaults == 3
MaxRounds == 3
CalendarDays == 2

StartTimes == {DaySecs - 62, DaySecs - 61}
MaxClock == DaySecs + ClockSpan
Horizon == DaySecs + RunSpan
WrapAt == 2 * DaySecs
AdvanceSteps == {30, 31}
CalendarStartTimes == {DaySecs - MinuteSecs - 1}
CalendarInstants == {d * DaySecs - MinuteSecs - 1 + k * MinuteSecs :
                       d \in 1..CalendarDays, k \in 0..2}
RpmLimits == {1, 2}
TpmLimits == {3}
RpdLimits == {2, 3}
AnyRpmLimits == {0, 2}
AnyTpmLimits == {0, 3}
AnyRpdLimits == {2}
WaitStartTimes == {DaySecs - 62}
WaitRpmLimits == {2}
WaitTpmLimits == {3}
WaitRpdLimits == {0, 2}
TokenCounts == {0, 2}
RunRpmLimits == {2, 15}
RunTpmLimits == {0, 3}
RunRpdLimits == {1500}
CallDurations == {1}
RunStartTimes == {DaySecs - 62}
ToolsScript == "tools/BatchParseAndExtractBylawPDFs"
IncrementalScript == "tools/IncrementalPDFExtraction"
Scripts == {"BatchParseAndExtractBylawPDFs", "pdf-extract-batch", ToolsScript}
\* the inputs of a run: what --input names (a file, a directory, a path that
\* does not exist) or the --error mode, with the number of files found
RunInputs == {<<"file", 1>>, <<"dir", 0>>, <<"dir", NumJobs>>, <<"missing", 0>>,
              <<"errors", 0>>, <<"errors", 1>>}
OneDirectory == {<<"dir", NumJobs>>}
OneFile == {<<"file", 1>>, <<"dir", 0>>}
LargeTokenCount == LargeTokenLimit + 1

VARIABLES
  now,                        \* the wall clock, datetime.datetime.now()
  rpm_limit, tpm_limit, rpd_limit,
  request_timestamps_minute,  \* deque of instants
  request_timestamps_day,     \* deque of instants
  token_usage_minute,         \* deque of <<instant, tokens>>
  day_start,
  is_allowed, limits_info,    \* what the last check_limits returned
  wpc,                        \* position inside wait_if_needed
  wait_time,                  \* the sleep wait_if_needed has computed
  wait_rounds,                \* sleeps done by the current wait_if_needed call
  last_op,                    \* the rate limiter operation that acted last
  rec_log,                    \* history: every record_request ever made
  gated,                      \* wait_if_needed returned since the last HTTP attempt
  script,                     \* which copy of the runner is running
  input,                      \* what the command line names as input
  pdf_files,                  \* the number of files main() has to process
  job,                        \* index of the file main() is processing, 0 before the first
  phase,                      \* per job: its state in the job state machine
  step,                       \* the call step the current job is in
  pc,                         \* position of the runner inside the step
  attempt,                    \* loop variable of the step's retry loop
  token_count,                \* what count_tokens returned for the current job
  uri_ok,                     \* the uploaded file's URI has a "/" in it
  success_count,
  exit_code,                  \* -1 while main() is running
  faults,                     \* failures injected so far
  cur,                        \* history: counters of the call step in progress
  step_log,                   \* history: the finished steps of the current job
  trail,                      \* history: the phases the current job has visited
  http_attempts               \* history: instants of the HTTP requests issued

rlVars == <<now, rpm_limit, tpm_limit, rpd_limit, request_timestamps_minute,
            request_timestamps_day, token_usage_minute, day_start,
            is_allowed, limits_info, wpc, wait_time, wait_rounds, last_op,
            rec_log, gated>>

runVars == <<script, input, pdf_files, job, phase, step, pc, attempt, token_count, uri_ok, success_count,
             exit_code, faults, cur, step_log, trail, http_attempts>>

vars == <<rlVars, runVars>>

config == <<script, input, pdf_files>>

limits == <<rpm_limit, tpm_limit, rpd_limit>>
windows == <<request_timestamps_minute, request_timestamps_day,
             token_usage_minute, day_start>>

\* ------------------------------------------------------------------------
\* Helpers of the rate limiter
\* ------------------------------------------------------------------------
Max(a, b) == IF a >= b THEN a ELSE b
Min(a, b) == IF a <= b THEN a ELSE b

Date(t) == t \div DaySecs

MinuteAgoTwice(t) == t - 2 * MinuteSecs

MinuteAhead(t) == t + MinuteSecs

MinuteAgo(t) == t - MinuteSecs

DayAgo(t) == t - DaySecs

PopStaleOnce(q, cutoff) ==
  IF q # <<>> /\ Head(q) < cutoff THEN Tail(q) ELSE q

RECURSIVE PopStaleInclusive(_, _)
PopStaleInclusive(q, cutoff) ==
  IF q # <<>> /\ Head(q) <= cutoff THEN PopStaleInclusive(Tail(q), cutoff)
                                   ELSE q

\* while q and q[0] < cutoff: q.popleft()
RECURSIVE PopStale(_, _)
PopStale(q, cutoff) ==
  IF q # <<>> /\ Head(q) < cutoff THEN PopStale(Tail(q), cutoff) ELSE q

\* while q and q[0][0] < cutoff: q.popleft()
RECURSIVE PopStaleTokens(_, _)
PopStaleTokens(q, cutoff) ==
  IF q # <<>> /\ Head(q)[1] < cutoff THEN PopStaleTokens(Tail(q), cutoff) ELSE q

FullDayElapsed(t, ds) == t - ds >= DaySecs

NewDayStarted(t, ds) == Date(t) > Date(ds)

CleanDayRollingOnly(q, t, ds) == PopStale(q, DayAgo(t))

CleanDay(q, t, ds) ==
  PopStale(IF NewDayStarted(t, ds) THEN <<>> ELSE q, DayAgo(t))

CleanDayStart(t, ds) == IF NewDayStarted(t, ds) THEN t ELSE ds

RECURSIVE TokenSum(_)
TokenSum(q) == IF q = <<>> THEN 0 ELSE Head(q)[2] + TokenSum(Tail(q))

IsExceededStrict(current, limit) == current > limit

IsExceeded(current, limit) == current >= limit

Quota(current, limit) ==
  [current |-> current, limit |-> limit, exceeded |-> IsExceeded(current, limit)]

LimitsInfo(rtm, rtd, tum) ==
  [rpm |-> Quota(Len(rtm), rpm_limit),
   rpd |-> Quota(Len(rtd), rpd_limit),
   tpm |-> Quota(TokenSum(tum), tpm_limit)]

IsAllowedIgnoringRpd(info) ==
  ~(info.rpm.exceeded \/ info.tpm.exceeded)

IsAllowed(info) ==
  ~(info.rpm.exceeded \/ info.rpd.exceeded \/ info.tpm.exceeded)

SecondsUntilMidnight(t) == (Date(t) + 1) * DaySecs - t

RpmWait(w, info, rtm, t) ==
  IF info.rpm.exceeded THEN Max(w, Head(rtm) + MinuteSecs - t) ELSE w

TpmWait(w, info, tum, t) ==
  IF info.tpm.exceeded THEN Max(w, Head(tum)[1] + MinuteSecs - t) ELSE w

RpdWait(w, info, t) ==
  IF info.rpd.exceeded THEN Max(w, SecondsUntilMidnight(t)) ELSE w

WaitTimeUnfloored(info, rtm, tum, t) ==
  Min(RpdWait(TpmWait(RpmWait(0, info, rtm, t), info, tum, t), info, t)
        + WaitBuffer, WaitCap)

WaitTimeZero(info, rtm, tum, t) == 0

WaitTimeUncapped(info, rtm, tum, t) ==
  RpdWait(TpmWait(RpmWait(BaseWait, info, rtm, t), info, tum, t), info, t)
    + WaitBuffer

WaitTime(info, rtm, tum, t) ==
  Min(RpdWait(TpmWait(RpmWait(BaseWait, info, rtm, t), info, tum, t), info, t)
        + WaitBuffer, WaitCap)

WaitTimeAlwaysCapped(info, rtm, tum, t) ==
  Min(RpdWait(TpmWait(RpmWait(BaseWait, info, rtm, t), info, tum, t), info, t)
        + WaitBuffer, WaitCap)

\* tools/IncrementalPDFExtraction.py: no cap on the wait for midnight
WaitTimeIncremental(info, rtm, tum, t) ==
  LET w == RpdWait(TpmWait(RpmWait(BaseWait, info, rtm, t), info, tum, t),
                   info, t)
  IN IF info.rpd.exceeded THEN w + WaitBuffer
                          ELSE Min(w + WaitBuffer, WaitCap)

\* the wait_time of the script's own copy of the RateLimiter
SleepTime(info, rtm, tum, t) ==
  IF script = IncrementalScript THEN WaitTimeIncremental(info, rtm, tum, t)
                                ELSE WaitTime(info, rtm, tum, t)

\* ------------------------------------------------------------------------
\* Operations of the rate limiter, as effects on its state
\* ------------------------------------------------------------------------
\* check_limits(): purge, then count and compare
DoCheckLimits ==
  LET rtm == PopStale(request_timestamps_minute, MinuteAgo(now))
      tum == PopStaleTokens(token_usage_minute, MinuteAgo(now))
      rtd == CleanDay(request_timestamps_day, now, day_start)
      info == LimitsInfo(rtm, rtd, tum)
  IN /\ request_timestamps_minute' = rtm
     /\ token_usage_minute' = tum
     /\ request_timestamps_day' = rtd
     /\ day_start' = CleanDayStart(now, day_start)
     /\ limits_info' = info
     /\ is_allowed' = IsAllowed(info)

DoRecordRequestAnyTokens(t, tokens) ==
  /\ request_timestamps_minute' = Append(request_timestamps_minute, t)
  /\ request_timestamps_day' = Append(request_timestamps_day, t)
  /\ token_usage_minute' = Append(token_usage_minute, <<t, tokens>>)
  /\ rec_log' = Append(rec_log, [t |-> t, ds |-> day_start, tok |-> tokens])

\* record_request(token_count) at instant t
DoRecordRequest(t, tokens) ==
  /\ request_timestamps_minute' = Append(request_timestamps_minute, t)
  /\ request_timestamps_day' = Append(request_timestamps_day, t)
  /\ token_usage_minute' =
       IF tokens > 0 THEN Append(token_usage_minute, <<t, tokens>>)
       ELSE token_usage_minute
  /\ rec_log' = Append(rec_log, [t |-> t, ds |-> day_start, tok |-> tokens])

\* no check_limits result is at hand
NoInfo == [rpm |-> Quota(0, rpm_limit), rpd |-> Quota(0, rpd_limit),
           tpm |-> Quota(0, tpm_limit)]

DropResult == is_allowed' = TRUE /\ limits_info' = NoInfo

ZeroCur == [attempts |-> 0, recorded |-> <<>>, fails |-> 0, sleeps |-> <<>>]

\* main() before its loop over pdf_files
InitRunner(scripts, inputs) ==
  /\ script \in scripts
  /\ \E inp \in inputs : input = inp[1] /\ pdf_files = inp[2]
  /\ input = "errors" => script = ToolsScript
  /\ job = 0
  /\ phase = [j \in 1..NumJobs |-> "pending"]
  /\ step = "none"
  /\ pc = "idle"
  /\ attempt = 0
  /\ token_count = 0
  /\ uri_ok = TRUE
  /\ success_count = 0
  /\ exit_code = -1
  /\ faults = 0
  /\ cur = ZeroCur
  /\ step_log = <<>>
  /\ trail = <<>>
  /\ http_attempts = <<>>

\* RateLimiter(rpm_limit, tpm_limit, rpd_limit)
NewLimiter(starts, rpms, tpms, rpds) ==
  /\ now \in starts
  /\ rpm_limit \in rpms
  /\ tpm_limit \in tpms
  /\ rpd_limit \in rpds
  /\ request_timestamps_minute = <<>>
  /\ request_timestamps_day = <<>>
  /\ token_usage_minute = <<>>
  /\ day_start = now
  /\ is_allowed = TRUE
  /\ limits_info = NoInfo
  /\ wpc = "idle"
  /\ wait_time = 0
  /\ wait_rounds = 0
  /\ last_op = "init"
  /\ rec_log = <<>>
  /\ gated = FALSE

InitLimiter == NewLimiter(StartTimes, RpmLimits, TpmLimits, RpdLimits)
               /\ InitRunner({"BatchParseAndExtractBylawPDFs"}, OneDirectory)

\* tools/BatchParseAndExtractBylawPDFs.py, after count_tokens:
\* if token_count > 10000: return False
SkipsCountedDocument(tc) == step = "count" /\ script = ToolsScript /\ tc > 0

SkipsLargeDocument(tc) ==
  step = "count" /\ script = ToolsScript /\ tc > LargeTokenLimit

\* control moves to step s2 at position p
Ctl(s2, p) ==
  /\ step' = s2
  /\ pc' = p
  /\ attempt' = 0
  /\ wpc' = IF p = "wait" THEN "check" ELSE "idle"
  /\ wait_rounds' = IF p = "wait" THEN 0 ELSE wait_rounds

LogEntry(result, c) ==
  [step |-> step, result |-> result, attempts |-> c.attempts,
   recorded |-> c.recorded, fails |-> c.fails, sleeps |-> c.sleeps]

JobEndsCountingAll(result, entry) ==
  /\ phase' = [phase EXCEPT ![job] = result]
  /\ trail' = Append(trail, result)
  /\ success_count' = success_count + 1
  /\ step_log' = Append(step_log, entry)
  /\ cur' = ZeroCur
  /\ Ctl("none", "idle")

\* process_pdf_file returns: True for "done", False for "failed"
JobEnds(result, entry) ==
  /\ phase' = [phase EXCEPT ![job] = result]
  /\ trail' = Append(trail, result)
  /\ success_count' = success_count + (IF result = "done" THEN 1 ELSE 0)
  /\ step_log' = Append(step_log, entry)
  /\ cur' = ZeroCur
  /\ Ctl("none", "idle")

\* oldest = self.request_timestamps_minute[0] and
\* oldest, _ = self.token_usage_minute[0] raise IndexError on an empty deque
WaitRaises(info, rtm, tum) ==
  \/ info.rpm.exceeded /\ rtm = <<>>
  \/ info.tpm.exceeded /\ tum = <<>>

\* One iteration of wait_if_needed's loop up to the break, the sleep or the
\* exception. An exception leaves wait_if_needed and, in the runner, the call
\* step and process_pdf_file's try block: the job ends as failed.
WaitIfNeededCheck ==
  /\ wpc = "check"
  /\ DoCheckLimits
  /\ CASE is_allowed' ->
            /\ wpc' = "idle"
            /\ last_op' = "wait_return"
            /\ gated' = TRUE
            /\ wait_time' = 0
            /\ UNCHANGED <<wait_rounds, runVars>>
       [] ~is_allowed' /\ WaitRaises(limits_info', request_timestamps_minute',
                                    token_usage_minute') ->
            /\ last_op' = "wait_raised"
            /\ gated' = gated
            /\ wait_time' = 0
            /\ IF pc = "wait"
                 THEN /\ JobEnds("failed", LogEntry("error", cur))
                      /\ UNCHANGED <<config, job, token_count, uri_ok, exit_code,
                                     faults, http_attempts>>
                 ELSE /\ wpc' = "idle"
                      /\ UNCHANGED <<wait_rounds, runVars>>
       [] OTHER ->
            /\ wpc' = "sleep"
            /\ last_op' = "wait_blocked"
            /\ gated' = gated
            /\ wait_time' = SleepTime(limits_info', request_timestamps_minute',
                                      token_usage_minute', now)
            /\ UNCHANGED <<wait_rounds, runVars>>
  /\ UNCHANGED <<now, limits, rec_log>>

\* Instants are kept relative to the midnight before last: when the clock
\* reaches WrapAt, every instant of the state is moved back by one day, which
\* changes no difference between instants and no comparison of dates, and
\* the history forgets the requests recorded more than two days ago.
Wraps(t2) == t2 >= WrapAt

Rebase(t, t2) == IF Wraps(t2) THEN t - DaySecs ELSE t

RebaseSeq(q, t2) == [i \in DOMAIN q |-> Rebase(q[i], t2)]

RebaseTokens(q, t2) == [i \in DOMAIN q |-> <<Rebase(q[i][1], t2), q[i][2]>>]

RebaseLog(log, t2) ==
  LET moved == [i \in DOMAIN log |->
                  [log[i] EXCEPT !.t = Rebase(@, t2), !.ds = Rebase(@, t2)]]
  IN SelectSeq(moved, LAMBDA e : e.t >= 0)

\* time.sleep(wait_time) inside wait_if_needed; a bounded sleep does not go
\* past the Horizon of the model
SleepStep(bounded) ==
  /\ wpc = "sleep"
  /\ bounded => now + wait_time <= Horizon
  /\ LET t2 == now + wait_time
     IN /\ now' = Rebase(t2, t2)
        /\ day_start' = Rebase(day_start, t2)
        /\ request_timestamps_minute' = RebaseSeq(request_timestamps_minute, t2)
        /\ request_timestamps_day' = RebaseSeq(request_timestamps_day, t2)
        /\ token_usage_minute' = RebaseTokens(token_usage_minute, t2)
        /\ rec_log' = RebaseLog(rec_log, t2)
  /\ wpc' = "check"
  /\ wait_time' = 0
  /\ wait_rounds' = Min(wait_rounds + 1, MaxRounds)
  /\ last_op' = "wait_sleep"
  /\ DropResult
  /\ UNCHANGED <<limits, gated, runVars>>

WaitIfNeededSleep == SleepStep(TRUE)

\* the same sleep under a clock that runs on for days
WaitIfNeededSleepOn == SleepStep(FALSE)

\* ------------------------------------------------------------------------
\* The rate limiter driven by an arbitrary caller
\* ------------------------------------------------------------------------
CallWaitIfNeeded ==
  /\ wpc = "idle"
  /\ pc = "idle"
  /\ wpc' = "check"
  /\ wait_rounds' = 0
  /\ last_op' = "wait_call"
  /\ DropResult
  /\ UNCHANGED <<now, limits, windows, wait_time, rec_log, gated, runVars>>

CheckLimits ==
  /\ wpc = "idle"
  /\ DoCheckLimits
  /\ last_op' = "check"
  /\ UNCHANGED <<now, limits, wpc, wait_time, wait_rounds, rec_log, gated, runVars>>

RecordRequest(tokens) ==
  /\ wpc = "idle"
  /\ Len(rec_log) < MaxRecords
  /\ DoRecordRequest(now, tokens)
  /\ last_op' = "record"
  /\ gated' = FALSE
  /\ DropResult
  /\ UNCHANGED <<now, limits, day_start, wpc, wait_time, wait_rounds, runVars>>

Advance(d) ==
  /\ wpc = "idle"
  /\ now + d <= MaxClock
  /\ now' = now + d
  /\ last_op' = "advance"
  /\ DropResult
  /\ UNCHANGED <<limits, windows, wpc, wait_time, wait_rounds, rec_log, gated,
                 runVars>>

NextLimiter ==
  \/ CallWaitIfNeeded
  \/ WaitIfNeededCheck
  \/ WaitIfNeededSleep
  \/ CheckLimits
  \/ \E tokens \in TokenCounts : RecordRequest(tokens)
  \/ \E d \in AdvanceSteps : Advance(d)

SpecLimiter == InitLimiter /\ [][NextLimiter]_vars

\* the same, with limits of 0 among the configured limits
InitAnyLimits == NewLimiter(StartTimes, AnyRpmLimits, AnyTpmLimits, AnyRpdLimits)
                 /\ InitRunner({"BatchParseAndExtractBylawPDFs"}, OneDirectory)

SpecAnyLimits == InitAnyLimits /\ [][NextLimiter]_vars

\* the RateLimiter of tools/IncrementalPDFExtraction.py
InitIncremental == NewLimiter(StartTimes, RpmLimits, TpmLimits, RpdLimits)
                   /\ InitRunner({IncrementalScript}, OneDirectory)

SpecIncremental == InitIncremental /\ [][NextLimiter]_vars

\* ------------------------------------------------------------------------
\* The rate limiter over several days: the caller records and checks, and
\* the clock is read one minute before midnight, at its two sides a minute
\* apart, and at the same times of the following days
\* ------------------------------------------------------------------------
InitCalendar == NewLimiter(CalendarStartTimes, RpmLimits, TpmLimits, RpdLimits)
                /\ InitRunner({"BatchParseAndExtractBylawPDFs"}, OneDirectory)

AdvanceLong(t2) ==
  /\ wpc = "idle"
  /\ t2 > now
  /\ now' = t2
  /\ last_op' = "advance"
  /\ DropResult
  /\ UNCHANGED <<limits, windows, wpc, wait_time, wait_rounds, rec_log, gated,
                 runVars>>

NextCalendar ==
  \/ CheckLimits
  \/ \E tokens \in TokenCounts : RecordRequest(tokens)
  \/ \E t2 \in CalendarInstants : AdvanceLong(t2)

SpecCalendar == InitCalendar /\ [][NextCalendar]_vars

\* ------------------------------------------------------------------------
\* A caller that records requests and waits, under a clock that advances
\* while wait_if_needed sleeps; the loop of wait_if_needed keeps running
\* ------------------------------------------------------------------------
InitWait == NewLimiter(WaitStartTimes, WaitRpmLimits, WaitTpmLimits, WaitRpdLimits)
            /\ InitRunner({"BatchParseAndExtractBylawPDFs"}, OneDirectory)

NextWait ==
  \/ CallWaitIfNeeded
  \/ WaitIfNeededCheck
  \/ WaitIfNeededSleepOn
  \/ \E tokens \in TokenCounts : RecordRequest(tokens)

SpecWait == /\ InitWait /\ [][NextWait]_vars
            /\ WF_vars(WaitIfNeededCheck) /\ WF_vars(WaitIfNeededSleepOn)

\* ------------------------------------------------------------------------
\* The batch runner: main(), process_pdf_file() and the four call steps
\* ------------------------------------------------------------------------
CallSteps == {"upload_start", "upload_bytes", "count", "extract", "delete"}

HappyPath == <<"pending", "uploading", "counting", "extracting", "persisting",
               "deleting", "done">>

\* the job state a step belongs to
PhaseOf(s) ==
  CASE s \in {"upload_start", "upload_bytes"} -> "uploading"
    [] s = "count" -> "counting"
    [] s = "extract" -> "extracting"
    [] s = "persist" -> "persisting"
    [] s = "delete" -> "deleting"

\* pdf-extract-batch.py has no delete_file
HasDeleteStep == script # "pdf-extract-batch"

\* the order of the statements of upload_file and process_pdf_file
NextStep(s) ==
  CASE s = "upload_start" -> "upload_bytes"
    [] s = "upload_bytes" -> "count"
    [] s = "count" -> "extract"
    [] s = "extract" -> "persist"
    [] s = "persist" -> IF HasDeleteStep THEN "delete" ELSE "none"
    [] s = "delete" -> "none"

\* What one HTTP attempt can come to: "ok", a network error, a non-2xx
\* status, or a 2xx response from which the expected content cannot be read.
\* delete_file reads nothing from the response.
\* "malformed" is a 2xx response whose body is not JSON, "lacking" a 2xx
\* response with a JSON body that lacks the field the step reads
Outcomes(s) ==
  IF s = "delete" THEN {"ok", "neterr", "httperr"}
  ELSE {"ok", "neterr", "httperr", "malformed", "lacking"}

\* record_request() follows raise_for_status() and precedes the reading of
\* the response, so it runs for every 2xx response
Recorded(res) == res \in {"ok", "malformed", "lacking"}

\* the try block returns: upload_file raises ValueError on a missing header
\* or URI; count_tokens returns result.get("totalTokens", 0) and
\* extract_structured_data returns the raw result when no candidate parses
Accepts(res, s) ==
  res = "ok" \/ (res = "lacking" /\ s \in {"count", "extract"})

TokensOfEveryStep(s) == token_count

\* the argument the step passes to record_request
TokensOf(s) == IF s = "extract" THEN token_count ELSE 0

\* only the bytes-upload loop calls wait_if_needed inside its retry loop
WaitsInsideLoop(s) == s = "upload_bytes"

ShouldRetryOnceMore(a) == a < max_retries

\* if attempt < max_retries - 1: sleep and retry, else give up
ShouldRetry(a) == a < max_retries - 1

BackoffDelay(a) == retry_delay * (2 ^ a)

ExhaustedResultSwallowed(s) == "done"

ExhaustedResultRaises(s) == "failed"

\* delete_file returns False where the other steps re-raise
ExhaustedResult(s) == IF s = "delete" THEN "done" ELSE "failed"

\* the current step has returned normally and the job goes on with s2
JobGoesOn(s2, entry) ==
  /\ phase' = [phase EXCEPT ![job] = PhaseOf(s2)]
  /\ trail' = IF PhaseOf(s2) = phase[job] THEN trail ELSE Append(trail, PhaseOf(s2))
  /\ success_count' = success_count
  /\ step_log' = Append(step_log, entry)
  /\ cur' = ZeroCur
  /\ Ctl(s2, IF s2 = "persist" THEN "persist" ELSE "wait")

\* the current step has returned normally
StepReturns(entry) ==
  IF NextStep(step) = "none" THEN JobEnds("done", entry)
  ELSE JobGoesOn(NextStep(step), entry)

\* main(): for pdf_file in pdf_files: process_pdf_file(...) up to upload_file's
\* first wait_if_needed
StartJob ==
  /\ pc = "idle"
  /\ wpc = "idle"
  /\ exit_code = -1
  /\ job < pdf_files
  /\ job' = job + 1
  /\ phase' = [phase EXCEPT ![job + 1] = "uploading"]
  /\ trail' = <<"pending", "uploading">>
  /\ step_log' = <<>>
  /\ cur' = ZeroCur
  /\ Ctl("upload_start", "wait")
  /\ last_op' = "wait_call"
  /\ DropResult
  /\ UNCHANGED <<now, limits, windows, wait_time, rec_log, gated, token_count,
                 uri_ok, success_count, exit_code, faults, http_attempts, config>>

\* One pass through the try block of a retry loop: the HTTP request,
\* raise_for_status, record_request, the reading of the response, and the
\* except clause up to its sleep, raise or return.
Attempt(res, dur, tc, uok) ==
  /\ step \in CallSteps
  /\ pc = "call" \/ (pc = "wait" /\ wpc = "idle")
  /\ step = "delete" => uri_ok
  /\ res \in Outcomes(step)
  /\ res # "ok" => faults < MaxFaults
  /\ tc # token_count => (step = "count" /\ Accepts(res, step))
  /\ (step = "count" /\ res = "lacking") => tc = 0
  /\ tc > LargeTokenLimit => script = ToolsScript
  /\ uok # uri_ok => (step = "upload_bytes" /\ res = "ok")
  /\ now + dur <= Horizon
  /\ now' = now + dur
  /\ IF Recorded(res)
       THEN DoRecordRequest(now + dur, TokensOf(step))
       ELSE UNCHANGED <<request_timestamps_minute, request_timestamps_day,
                        token_usage_minute, rec_log>>
  /\ last_op' = IF Recorded(res) THEN "record" ELSE "call"
  /\ gated' = FALSE
  /\ http_attempts' = Append(http_attempts, now)
  /\ faults' = faults + (IF res = "ok" THEN 0 ELSE 1)
  /\ token_count' = tc
  /\ uri_ok' = uok
  /\ DropResult
  /\ LET c == [cur EXCEPT !.attempts = @ + 1,
                          !.recorded = IF Recorded(res)
                                         THEN Append(@, TokensOf(step)) ELSE @,
                          !.fails = @ + (IF Accepts(res, step) THEN 0 ELSE 1)]
     IN CASE Accepts(res, step) /\ SkipsLargeDocument(tc) ->
               JobEnds("failed", LogEntry("too_large", c))
          [] Accepts(res, step) /\ ~SkipsLargeDocument(tc) ->
               StepReturns(LogEntry(res, c))
          [] ~Accepts(res, step) /\ ShouldRetry(attempt) ->
               /\ pc' = "backoff"
               /\ cur' = c
               /\ UNCHANGED <<step, attempt, wpc, wait_rounds, phase, trail,
                              success_count, step_log>>
          [] OTHER ->
               JobEnds(ExhaustedResult(step), LogEntry("exhausted", c))
  /\ UNCHANGED <<limits, day_start, wait_time, config, job, exit_code>>

\* time.sleep(retry_delay * 2 ** attempt) and the next turn of the for loop
Backoff ==
  /\ pc = "backoff"
  /\ now + BackoffDelay(attempt) <= Horizon
  /\ now' = now + BackoffDelay(attempt)
  /\ attempt' = attempt + 1
  /\ cur' = [cur EXCEPT !.sleeps = Append(@, BackoffDelay(attempt))]
  /\ pc' = IF WaitsInsideLoop(step) THEN "wait" ELSE "call"
  /\ wpc' = IF WaitsInsideLoop(step) THEN "check" ELSE "idle"
  /\ wait_rounds' = IF WaitsInsideLoop(step) THEN 0 ELSE wait_rounds
  /\ last_op' = "backoff"
  /\ DropResult
  /\ UNCHANGED <<limits, windows, wait_time, rec_log, gated, config, job, phase, step,
                 token_count, uri_ok, success_count, exit_code, faults,
                 step_log, trail, http_attempts>>

\* json.dump(response) into the output file; any exception fails the job
Persist(ok) ==
  /\ pc = "persist"
  /\ ~ok => faults < MaxFaults
  /\ faults' = faults + (IF ok THEN 0 ELSE 1)
  /\ IF ok THEN StepReturns(LogEntry("ok", cur))
           ELSE JobEnds("failed", LogEntry("error", cur))
  /\ last_op' = "persist"
  /\ DropResult
  /\ UNCHANGED <<now, limits, windows, wait_time, rec_log, gated, config, job,
                 token_count, uri_ok, exit_code, http_attempts>>

\* delete_file: len(file_uri.split('/')) < 2, return False before any request
DeleteBadUri ==
  /\ step = "delete"
  /\ pc = "wait" /\ wpc = "idle"
  /\ ~uri_ok
  /\ JobEnds("done", LogEntry("skipped", cur))
  /\ last_op' = "delete_skipped"
  /\ DropResult
  /\ UNCHANGED <<now, limits, windows, wait_time, rec_log, gated, config, job,
                 token_count, uri_ok, exit_code, faults, http_attempts>>

ExitStatusAnySuccess == IF success_count > 0 THEN 0 ELSE 1

\* return 0 if success_count == len(pdf_files) else 1
ExitStatus == IF success_count = pdf_files THEN 0 ELSE 1

\* main(): the for loop is over
Finish ==
  /\ pc = "idle"
  /\ pdf_files > 0
  /\ job = pdf_files
  /\ exit_code = -1
  /\ exit_code' = ExitStatus
  /\ UNCHANGED <<rlVars, config, job, phase, step, pc, attempt, token_count, uri_ok,
                 success_count, faults, cur, step_log, trail, http_attempts>>

\* main() returns before its loop: the input path does not exist or the
\* directory has no PDF (return 1), --error finds nothing to reprocess
\* (return 0)
NoFiles ==
  /\ pc = "idle"
  /\ pdf_files = 0
  /\ exit_code = -1
  /\ exit_code' = IF input = "errors" THEN 0 ELSE 1
  /\ UNCHANGED <<rlVars, config, job, phase, step, pc, attempt, token_count, uri_ok,
                 success_count, faults, cur, step_log, trail, http_attempts>>

\* main(): the limiter from --rpm, --tpm and --rpd, then the input; the low
\* limits are run with BatchParseAndExtractBylawPDFs.py on a directory
Init == /\ NewLimiter(RunStartTimes, RunRpmLimits, RunTpmLimits, RunRpdLimits)
        /\ InitRunner(Scripts, RunInputs)
        /\ (rpm_limit < 15 \/ tpm_limit = 0) =>
             (script = "BatchParseAndExtractBylawPDFs" /\ input = "dir")

Next ==
  \/ StartJob
  \/ WaitIfNeededCheck
  \/ WaitIfNeededSleep
  \/ \E res \in {"ok", "neterr", "httperr", "malformed"}, dur \in CallDurations,
        tc \in TokenCounts \cup {LargeTokenCount}, uok \in BOOLEAN :
          Attempt(res, dur, tc, uok)
  \/ Backoff
  \/ \E ok \in BOOLEAN : Persist(ok)
  \/ DeleteBadUri
  \/ Finish
  \/ NoFiles

Spec == Init /\ [][Next]_vars

\* the runner on one file, with every kind of response of the API
InitResponses ==
  /\ NewLimiter(RunStartTimes, RunRpmLimits, TpmLimits, RunRpdLimits)
  /\ InitRunner(Scripts, OneFile)

NextResponses ==
  \/ StartJob
  \/ WaitIfNeededCheck
  \/ WaitIfNeededSleep
  \/ \E res \in Outcomes("count"), dur \in CallDurations,
        tc \in TokenCounts \cup {LargeTokenCount}, uok \in BOOLEAN :
          Attempt(res, dur, tc, uok)
  \/ Backoff
  \/ \E ok \in BOOLEAN : Persist(ok)
  \/ DeleteBadUri
  \/ Finish
  \/ NoFiles

SpecResponses == InitResponses /\ [][NextResponses]_vars

\* ------------------------------------------------------------------------
\* Properties of the rate limiter
\* ------------------------------------------------------------------------
\* the operations that run check_limits
CheckOps == {"check", "wait_return", "wait_blocked"}

QuotaNames == {"rpm", "tpm", "rpd"}

\* C1: check_limits returns is_allowed = TRUE exactly when, after the purge,
\* all three counts are strictly under their limits; each info entry reports
\* the current count, the configured limit and exceeded = (current >= limit),
\* so a count equal to its limit is reported as exceeded.
C1_CheckLimitsVerdict ==
  last_op \in CheckOps =>
    /\ is_allowed = (/\ Len(request_timestamps_minute) < rpm_limit
                     /\ TokenSum(token_usage_minute) < tpm_limit
                     /\ Len(request_timestamps_day) < rpd_limit)
    /\ limits_info.rpm.current = Len(request_timestamps_minute)
    /\ limits_info.tpm.current = TokenSum(token_usage_minute)
    /\ limits_info.rpd.current = Len(request_timestamps_day)
    /\ limits_info.rpm.limit = rpm_limit
    /\ limits_info.tpm.limit = tpm_limit
    /\ limits_info.rpd.limit = rpd_limit
    /\ \A q \in QuotaNames :
         limits_info[q].exceeded = (limits_info[q].current >= limits_info[q].limit)

\* A check that found exactly rpm_limit requests and nothing else exceeded
C1_Witness ==
  /\ last_op = "check"
  /\ limits_info.rpm.current = rpm_limit
  /\ limits_info.rpm.exceeded
  /\ ~limits_info.rpd.exceeded
  /\ ~limits_info.tpm.exceeded
  /\ ~is_allowed

\* C2: with rpm_limit = N, once exactly N requests have been recorded and
\* all of them lie within the last minute, check_limits answers not allowed
\* with rpm exceeded; once the oldest of the N is more than 60 s old and the
\* other two quotas are not exceeded, check_limits answers allowed.
C2_BlockingThreshold ==
  (last_op \in CheckOps /\ Len(rec_log) = rpm_limit) =>
    /\ (\A i \in DOMAIN rec_log : rec_log[i].t >= now - MinuteSecs)
         => (~is_allowed /\ limits_info.rpm.exceeded
             /\ limits_info.rpm.current = rpm_limit)
    /\ (/\ rec_log[1].t < now - MinuteSecs
        /\ ~limits_info.tpm.exceeded
        /\ ~limits_info.rpd.exceeded)
         => is_allowed

\* Scenario A at its second check: two requests recorded together, 61 s ago
C2_Witness ==
  /\ last_op = "check"
  /\ rpm_limit = 2
  /\ Len(rec_log) = 2
  /\ rec_log[1].t = rec_log[2].t
  /\ now = rec_log[1].t + MinuteSecs + 1
  /\ limits_info.rpm.current = 0
  /\ is_allowed

\* C3: a request recorded at t0 is, at a check_limits run at t0 + 61 s, no
\* longer counted toward rpm.current or tpm.current, and is still counted
\* toward rpd.current unless the date at t0 + 61 s is later than the date of
\* day_start (as it stood when the request was recorded).
C3_WindowExpiry ==
  last_op \in CheckOps =>
    \A i \in DOMAIN rec_log :
      rec_log[i].t + MinuteSecs + 1 = now =>
        /\ \A k \in DOMAIN request_timestamps_minute :
             request_timestamps_minute[k] > rec_log[i].t
        /\ \A k \in DOMAIN token_usage_minute :
             token_usage_minute[k][1] > rec_log[i].t
        /\ limits_info.rpm.current = Len(request_timestamps_minute)
        /\ limits_info.tpm.current = TokenSum(token_usage_minute)
        /\ limits_info.rpd.current = Len(request_timestamps_day)
        /\ Cardinality({k \in DOMAIN request_timestamps_day :
                          request_timestamps_day[k] = rec_log[i].t})
             >= Cardinality({j \in DOMAIN rec_log :
                               /\ rec_log[j].t = rec_log[i].t
                               /\ ~(Date(now) > Date(rec_log[j].ds))})

\* A request with tokens, checked 61 s later on the same calendar day
C3_Witness ==
  /\ last_op = "check"
  /\ \E i \in DOMAIN rec_log :
       /\ rec_log[i].t + MinuteSecs + 1 = now
       /\ rec_log[i].tok > 0
       /\ Date(now) = Date(rec_log[i].ds)
  /\ limits_info.rpm.current = 0
  /\ limits_info.tpm.current = 0
  /\ limits_info.rpd.current >= 1

\* C4: whenever check_limits runs at an instant whose date is later than the
\* date of day_start, it empties the day window, sets day_start to now and
\* reports rpd.current = 0, however recent the cleared entries are.
C4_DayRollover ==
  [][(last_op' \in CheckOps /\ Date(now) > Date(day_start)) =>
       (/\ request_timestamps_day' = <<>>
        /\ day_start' = now
        /\ limits_info'.rpd.current = 0)]_vars

\* rpd_limit requests of yesterday, checked one second past midnight
C4_Witness ==
  /\ last_op = "check"
  /\ Len(rec_log) = rpd_limit
  /\ \A i \in DOMAIN rec_log :
       Date(rec_log[i].t) < Date(now) /\ rec_log[i].t > now - MinuteSecs - 3
  /\ now = Date(now) * DaySecs + 1
  /\ day_start = now
  /\ limits_info.rpd.current = 0
  /\ is_allowed

\* C5: at the instant wait_if_needed returns, the check_limits it ran last
\* answered allowed: all three counts are strictly below their limits.
C5_WaitReturnsAllowed ==
  last_op = "wait_return" =>
    /\ is_allowed
    /\ Len(request_timestamps_minute) < rpm_limit
    /\ TokenSum(token_usage_minute) < tpm_limit
    /\ Len(request_timestamps_day) < rpd_limit

\* wait_if_needed returns after it had to sleep at least once
C5_Witness ==
  /\ last_op = "wait_return"
  /\ wait_rounds >= 1
  /\ Len(rec_log) >= rpm_limit

\* ------------------------------------------------------------------------
\* Properties of the retry loops and of the job state machine
\* ------------------------------------------------------------------------
\* the finished call steps of the current job
StepEntries == {i \in DOMAIN step_log : step_log[i].step \in CallSteps}

\* C6: a call step that fails max_retries times in a row, whatever the mix
\* of failure kinds, has made no record_request call and leaves the job
\* failed.
C6_ExhaustedStepRecordsNothing ==
  \A i \in StepEntries :
    step_log[i].result = "exhausted" =>
      (step_log[i].recorded = <<>> /\ phase[job] = "failed")

\* C7: a call step that fails k < max_retries times and then succeeds has
\* slept exactly k times, for retry_delay * 2^0 .. retry_delay * 2^(k-1)
\* seconds in that order, and has called record_request exactly once, with
\* the measured token count in the generate-content step and 0 elsewhere.
C7_RetryThenSuccess ==
  \A i \in StepEntries :
    step_log[i].result = "ok" =>
      /\ step_log[i].fails < max_retries
      /\ Len(step_log[i].sleeps) = step_log[i].fails
      /\ \A k \in DOMAIN step_log[i].sleeps :
           step_log[i].sleeps[k] = retry_delay * (2 ^ (k - 1))
      /\ step_log[i].recorded =
           <<IF step_log[i].step = "extract" THEN token_count ELSE 0>>

\* C8 as stated: no step issues more than max_retries attempts, and a step
\* that exhausts its retries has slept 2 s, 4 s and 8 s.
C8_ExhaustedSleepsThrice ==
  \A i \in StepEntries :
    /\ step_log[i].attempts <= max_retries
    /\ step_log[i].result = "exhausted" =>
         step_log[i].sleeps = <<retry_delay, 2 * retry_delay, 4 * retry_delay>>

\* C8 as amended: no step issues more than max_retries attempts; the sleep
\* after failed attempt number a (from 0) lasts retry_delay * 2^a seconds;
\* no sleep follows the last attempt, so a step that exhausts its retries
\* has made 3 attempts and slept 2 s and 4 s only.
C8_BoundedBackoff ==
  /\ attempt < max_retries
  /\ cur.attempts <= max_retries
  /\ \A k \in DOMAIN cur.sleeps : cur.sleeps[k] = retry_delay * (2 ^ (k - 1))
  /\ \A i \in StepEntries :
       /\ step_log[i].attempts <= max_retries
       /\ \A k \in DOMAIN step_log[i].sleeps :
            step_log[i].sleeps[k] = retry_delay * (2 ^ (k - 1))
       /\ step_log[i].attempts >= 1 =>
            Len(step_log[i].sleeps) = step_log[i].attempts - 1
       /\ step_log[i].result = "exhausted" =>
            /\ step_log[i].attempts = max_retries
            /\ step_log[i].sleeps = <<retry_delay, 2 * retry_delay>>

\* a step gave up after three attempts and two sleeps
C8_Witness ==
  \E i \in StepEntries :
    /\ step_log[i].result = "exhausted"
    /\ step_log[i].attempts = 3
    /\ step_log[i].sleeps = <<2, 4>>

\* C9: no HTTP attempt is issued unless wait_if_needed has returned since
\* the previous attempt.
C9_EveryAttemptGated ==
  [][http_attempts' # http_attempts => gated]_vars

\* C10 as stated: a finished job has gone through the happy path in order,
\* and a step that ends in failure after exhausting its retries leaves the
\* job failed, with no later step executed.
C10_ExhaustionFailsJob ==
  job >= 1 =>
    /\ phase[job] = "done" => trail = HappyPath
    /\ \A i \in DOMAIN step_log :
         step_log[i].result \in {"exhausted", "error"} =>
           (phase[job] = "failed" /\ i = Len(step_log))

IsPrefix(p, q) == Len(p) <= Len(q) /\ \A k \in DOMAIN p : p[k] = q[k]

StepOrder == <<"upload_start", "upload_bytes", "count", "extract", "persist",
               "delete">>

\* the happy path of the script: pdf-extract-batch.py has no deleting state
HappyPathOf(sc) ==
  IF sc = "pdf-extract-batch"
  THEN <<"pending", "uploading", "counting", "extracting", "persisting", "done">>
  ELSE HappyPath

\* C10 as amended: the job's states follow the happy path in order (without
\* deleting in pdf-extract-batch.py); when upload, count-tokens,
\* generate-content or persist ends in failure the job becomes failed and no
\* later step runs for it; a delete step that exhausts its retries leaves
\* the job done; in tools/BatchParseAndExtractBylawPDFs.py a document counted
\* at more than 10000 tokens ends the job as failed right after the count.
\* Jobs before the current one are over, later ones pending.
C10_StepOrder ==
  job >= 1 =>
    /\ phase[job] = trail[Len(trail)]
    /\ \/ IsPrefix(trail, HappyPathOf(script))
       \/ /\ trail[Len(trail)] = "failed"
          /\ IsPrefix(SubSeq(trail, 1, Len(trail) - 1), HappyPath)
          /\ Len(trail) - 1 \in 2..5
    /\ IsPrefix([i \in DOMAIN step_log |-> step_log[i].step], StepOrder)
    /\ \A i \in DOMAIN step_log :
         /\ (step_log[i].step # "delete"
             /\ step_log[i].result \in {"exhausted", "error", "too_large"}) =>
              /\ phase[job] = "failed"
              /\ i = Len(step_log)
              /\ trail[Len(trail) - 1] = PhaseOf(step_log[i].step)
         /\ step_log[i].step = "delete" =>
              (phase[job] = "done" /\ i = Len(step_log))
    /\ phase[job] = "failed" =>
         (pc = "idle"
          /\ step_log[Len(step_log)].result \in {"exhausted", "error", "too_large"})
    /\ phase[job] = "done" => (pc = "idle" /\ trail = HappyPathOf(script))
    /\ \A j \in 1..NumJobs :
         /\ j < job => phase[j] \in {"done", "failed"}
         /\ j > job => phase[j] = "pending"

\* the first job failed after exhausting a step's retries, the runner went on
\* and the second job ran through the happy path to done
C10_Witness ==
  /\ job = 2
  /\ phase[1] = "failed"
  /\ faults = max_retries
  /\ phase[2] = "done"
  /\ trail = HappyPath
  /\ Len(step_log) = Len(StepOrder)

\* ------------------------------------------------------------------------
\* Properties of the job outcome and of the run
\* ------------------------------------------------------------------------
\* the results a delete step can end with: deleted, gave up after
\* max_retries attempts, or not attempted because the URI has no "/"
DeleteResults == {"ok", "exhausted", "skipped"}

\* C11: once upload, count-tokens, generate-content and persist have
\* succeeded, the job is never failed: it is in its delete step or done, and
\* when the delete step is over, whether it deleted the file, gave up after
\* all its attempts or did not attempt, the job is done, it is counted in
\* success_count, and the runner is free to go on with the next file.
C11_DeleteBestEffort ==
  (job >= 1 /\ \E i \in DOMAIN step_log :
                 step_log[i].step = "persist" /\ step_log[i].result = "ok") =>
    /\ phase[job] \in {"deleting", "done"}
    /\ \A i \in DOMAIN step_log :
         step_log[i].step = "delete" =>
           /\ step_log[i].result \in DeleteResults
           /\ i = Len(step_log)
           /\ phase[job] = "done"
           /\ success_count >= 1
           /\ pc = "idle" /\ wpc = "idle"

\* the delete step of the first job failed all its attempts and the job is
\* done and counted
C11_Witness ==
  /\ job = 1
  /\ phase[1] = "done"
  /\ success_count = 1
  /\ step_log # <<>>
  /\ step_log[Len(step_log)].step = "delete"
  /\ step_log[Len(step_log)].result = "exhausted"
  /\ step_log[Len(step_log)].attempts = max_retries

JobOutcomes == {"done", "failed"}

\* C12: whatever steps fail, the runner takes the files one at a time in
\* input order: the job index only ever moves to the next file, and only
\* when the job before it is over, so at most one job is in progress; a job's
\* outcome, once reached, never changes (no file is processed twice); after a
\* failed job the runner is free to start the next file; success_count is at
\* every moment the number of jobs that ended in success; and main returns
\* only when every file has been processed.
C12_FailureContainment ==
  [][/\ \/ job' = job
        \/ /\ job' = job + 1
           /\ phase[job + 1] = "pending"
           /\ job >= 1 => phase[job] \in JobOutcomes
     /\ \A j \in 1..NumJobs :
          /\ j < job' => phase'[j] \in JobOutcomes
          /\ j > job' => phase'[j] = "pending"
          /\ phase[j] \in JobOutcomes => phase'[j] = phase[j]
     /\ (job' >= 1 /\ job' < pdf_files /\ phase'[job'] = "failed") =>
          (pc' = "idle" /\ wpc' = "idle" /\ exit_code' = -1)
     /\ success_count' = Cardinality({j \in 1..NumJobs : phase'[j] = "done"})
     /\ exit_code' # -1 =>
          (job' = pdf_files /\ \A j \in 1..pdf_files : phase'[j] \in JobOutcomes)
    ]_vars

\* the first file failed, the second was processed all the same and
\* succeeded, and main has returned
C12_Witness ==
  /\ exit_code = 1
  /\ job = NumJobs
  /\ phase[1] = "failed"
  /\ phase[NumJobs] = "done"
  /\ success_count = Cardinality({j \in 1..NumJobs : phase[j] = "done"})
  /\ success_count >= 1

\* ------------------------------------------------------------------------
\* Further properties of the rate limiter
\* ------------------------------------------------------------------------
\* C16: record_request(token_count) appends the current instant to
\* request_timestamps_minute and to request_timestamps_day, appends
\* <<now, token_count>> to token_usage_minute exactly when token_count > 0,
\* and leaves everything else as it was: nothing is purged (stale entries
\* stay), day_start and the three limits keep their values.
C16_RecordRequestFrame ==
  [][rec_log' # rec_log =>
       LET tok == rec_log'[Len(rec_log')].tok
       IN /\ Len(rec_log') = Len(rec_log) + 1
          /\ request_timestamps_minute' = Append(request_timestamps_minute, now')
          /\ request_timestamps_day' = Append(request_timestamps_day, now')
          /\ tok > 0 =>
               token_usage_minute' = Append(token_usage_minute, <<now', tok>>)
          /\ ~(tok > 0) => token_usage_minute' = token_usage_minute
          /\ day_start' = day_start
          /\ limits' = limits
    ]_vars

\* a request without tokens recorded while an entry older than a minute and
\* a token entry are still in the windows: nothing was purged, nothing was
\* added to the token usage
C16_Witness ==
  /\ last_op = "record"
  /\ rec_log[Len(rec_log)].tok = 0
  /\ Len(request_timestamps_minute) = 2
  /\ request_timestamps_minute[1] < now - MinuteSecs
  /\ request_timestamps_minute[2] = now
  /\ Len(token_usage_minute) = 1
  /\ token_usage_minute[1][1] < now - MinuteSecs

\* the tokens of the requests recorded at or after the instant cutoff
RECURSIVE TokensSince(_, _)
TokensSince(log, cutoff) ==
  IF log = <<>> THEN 0
  ELSE (IF Head(log).t >= cutoff THEN Head(log).tok ELSE 0)
       + TokensSince(Tail(log), cutoff)

\* C17: every record_request of an upload, count-tokens or delete step
\* passes 0 tokens, every record_request of the generate-content step passes
\* the token count that the job's count-tokens step returned, and so the
\* tpm.current that check_limits reports is the sum of the token counts
\* recorded with the generate-content calls of the last minute.
C17_TokenAccounting ==
  /\ \A i \in StepEntries :
       \A k \in DOMAIN step_log[i].recorded :
         step_log[i].recorded[k] =
           (IF step_log[i].step = "extract" THEN token_count ELSE 0)
  /\ \A k \in DOMAIN cur.recorded :
       cur.recorded[k] = (IF step = "extract" THEN token_count ELSE 0)
  /\ last_op \in CheckOps =>
       limits_info.tpm.current = TokensSince(rec_log, now - MinuteSecs)

\* the generate-content calls of two jobs, 2 tokens each, are in the last
\* minute: the wait_if_needed of the delete step finds tpm.current = 4
C17_Witness ==
  /\ job = 2
  /\ step = "delete"
  /\ last_op = "wait_blocked"
  /\ token_count = 2
  /\ limits_info.tpm.current = 4
  /\ limits_info.tpm.exceeded
  /\ Len(rec_log) > 2

\* every request recorded so far was recorded at the present instant
AllRecordedNow == \A i \in DOMAIN rec_log : rec_log[i].t = now

\* C18 as stated: after any sequence of record_request calls, a check_limits
\* run with no clock advance in between reports rpm, tpm and rpd counts equal
\* to the counts over the unpurged sequences.
C18_NoPrematurePurge ==
  (last_op \in CheckOps /\ AllRecordedNow) =>
    /\ limits_info.rpm.current = Len(rec_log)
    /\ limits_info.tpm.current = TokensSince(rec_log, now)
    /\ limits_info.rpd.current = Len(rec_log)

\* C18 as amended: in that situation the rpm and tpm counts equal the counts
\* over the unpurged sequences; the rpd count does too, except that the
\* requests recorded while the date of day_start was still earlier than the
\* date of the clock are cleared by the day rollover of the check.
C18_PurgeKeepsFreshEntries ==
  (last_op \in CheckOps /\ AllRecordedNow) =>
    /\ limits_info.rpm.current = Len(rec_log)
    /\ request_timestamps_minute = [i \in DOMAIN rec_log |-> now]
    /\ limits_info.tpm.current = TokensSince(rec_log, now)
    /\ limits_info.rpd.current =
         Cardinality({i \in DOMAIN rec_log : ~(Date(now) > Date(rec_log[i].ds))})

\* two requests, one of them with tokens, and a check at the same instant
C18_Witness ==
  /\ last_op = "check"
  /\ AllRecordedNow
  /\ Len(rec_log) = 2
  /\ limits_info.rpm.current = 2
  /\ limits_info.rpd.current = 2
  /\ limits_info.tpm.current = 2

\* the largest element of a finite non-empty set of integers
MaxOf(S) == CHOOSE x \in S : \A y \in S : y <= x

\* the waits the exceeded quotas ask for, at a blocked wait_if_needed
QuotaWaits ==
  (IF limits_info.rpm.exceeded
     THEN {request_timestamps_minute[1] + MinuteSecs - now} ELSE {})
  \cup (IF limits_info.tpm.exceeded
          THEN {token_usage_minute[1][1] + MinuteSecs - now} ELSE {})
  \cup (IF limits_info.rpd.exceeded
          THEN {(Date(now) + 1) * DaySecs - now} ELSE {})

\* C19: every sleep of wait_if_needed lasts between 6 and 60 seconds: it is
\* the largest of the 5 s floor and the waits of the exceeded quotas, plus
\* 1 s, cut down to 60 s; it is never zero or negative, even when the oldest
\* entry is about to age out.
C19_SleepBetween6And60 ==
  wpc = "sleep" =>
    /\ wait_time >= 6
    /\ wait_time <= 60
    /\ wait_time = Min(MaxOf({5} \cup QuotaWaits) + 1, 60)

\* rpm is exceeded by an entry that ages out this very second: the quota's
\* own wait is 0 and wait_if_needed sleeps 6 s
C19_Witness ==
  /\ wpc = "sleep"
  /\ limits_info.rpm.exceeded
  /\ ~limits_info.rpd.exceeded
  /\ request_timestamps_minute[1] + MinuteSecs - now = 0
  /\ wait_time = 6

\* the day window as check_limits would count it when no day rollover is due
DayCountNoRollover == Len(PopStale(request_timestamps_day, DayAgo(now)))

\* C20: while the RPD quota is exceeded and the date has not rolled over,
\* an iteration of wait_if_needed does not return: it computes a sleep of at
\* most 60 s; every sleep lasts exactly the computed time and is followed by
\* a new check_limits; and an iteration that returns although the day window
\* held rpd_limit entries is one that ran after the date rollover, cleared
\* the day window and set day_start to now.
C20_RpdWaitInIncrements ==
  [][/\ (wpc = "check" /\ wpc' # "check" /\ DayCountNoRollover >= rpd_limit) =>
          IF Date(now) > Date(day_start)
            THEN /\ request_timestamps_day' = <<>>
                 /\ day_start' = now
                 /\ limits_info'.rpd.current = 0
            ELSE /\ wpc' = "sleep"
                 /\ last_op' = "wait_blocked"
                 /\ limits_info'.rpd.exceeded
                 /\ wait_time' >= 6 /\ wait_time' <= 60
     /\ wpc = "sleep" =>
          /\ wpc' = "check"
          /\ now' = now + wait_time
          /\ wait_time <= 60
          /\ UNCHANGED windows
     /\ last_op' = "wait_return" => (is_allowed' /\ ~limits_info'.rpd.exceeded)
    ]_vars

\* rpd_limit requests were recorded more than a minute before midnight;
\* wait_if_needed slept twice and returned from the check that found the new
\* date and cleared the day window
C20_Witness ==
  /\ last_op = "wait_return"
  /\ wait_rounds = 2
  /\ Len(rec_log) = rpd_limit
  /\ \A i \in DOMAIN rec_log : rec_log[i].t <= DaySecs - MinuteSecs - 1
  /\ day_start = now
  /\ Date(now) = 1
  /\ request_timestamps_day = <<>>

\* C14: no operation of the RateLimiter raises, whatever the limits
\* (a limit of 0 included) and whatever was recorded: wait_if_needed never
\* ends in an exception.
C14_LimiterNeverRaises == last_op # "wait_raised"

\* ------------------------------------------------------------------------
\* Termination of wait_if_needed
\* ------------------------------------------------------------------------
\* C15 as stated: while the clock keeps advancing, so that the date rolls
\* over again and again, and nothing is recorded during the wait, every call
\* of wait_if_needed eventually returns.
C15_WaitAlwaysReturns == (wpc = "check") ~> (last_op = "wait_return")

\* C15 as amended: the same for every call made with rpd_limit >= 1 (and
\* rpm and tpm limits >= 1); with rpd_limit = 0 the day window is exceeded
\* even when it is empty, and the call blocks through every date rollover.
C15_WaitReturnsGivenDailyQuota ==
  (wpc = "check" /\ rpd_limit > 0) ~> (last_op = "wait_return")

\* a call that the RPD quota had blocked has returned after midnight
C15_Witness ==
  /\ last_op = "wait_return"
  /\ rpd_limit > 0
  /\ wait_rounds >= 1
  /\ Len(rec_log) >= rpd_limit
  /\ limits_info.rpd.current = 0
  /\ Date(now) > Date(rec_log[1].t)

\* ------------------------------------------------------------------------
\* The exit status of the run
\* ------------------------------------------------------------------------
\* every job of the run ended in success
AllJobsSucceeded == \A j \in 1..pdf_files : phase[j] = "done"

\* C13 as stated: the exit status is 0 if all jobs succeeded and 1 otherwise,
\* for every input, a run of zero jobs included.
C13_ExitStatus ==
  exit_code # -1 => exit_code = (IF AllJobsSucceeded THEN 0 ELSE 1)

\* C13 as amended: main returns after the last file, with 0 if all jobs
\* succeeded and 1 otherwise, when there is at least one job; with no job at
\* all it returns 0 in the --error mode (nothing to reprocess) and 1 when the
\* input directory has no PDF or the input path does not exist.
C13_ExitStatusByInput ==
  exit_code # -1 =>
    /\ job = pdf_files
    /\ pdf_files > 0 => exit_code = (IF AllJobsSucceeded THEN 0 ELSE 1)
    /\ pdf_files = 0 => exit_code = (IF input = "errors" THEN 0 ELSE 1)

\* a directory of NumJobs files, all of them processed successfully: exit 0
C13_Witness ==
  /\ exit_code = 0
  /\ input = "dir"
  /\ pdf_files = NumJobs
  /\ success_count = NumJobs
  /\ AllJobsSucceeded

IsSorted(q) == \A i, j \in DOMAIN q : i < j => q[i] <= q[j]

TokenInstants(q) == [i \in DOMAIN q |-> q[i][1]]

\* C23: under a non-decreasing clock the three windows are sorted by instant
\* in every reachable state, and right after every check_limits no entry of
\* a minute window is older than now - 60 s and no entry of the day window
\* is older than now - 24 h: the trimming from the front removes every stale
\* entry.
C23_SortedAndTrimmed ==
  /\ IsSorted(request_timestamps_minute)
  /\ IsSorted(request_timestamps_day)
  /\ IsSorted(TokenInstants(token_usage_minute))
  /\ last_op \in CheckOps =>
       /\ \A i \in DOMAIN request_timestamps_minute :
            request_timestamps_minute[i] >= MinuteAgo(now)
       /\ \A i \in DOMAIN token_usage_minute :
            token_usage_minute[i][1] >= MinuteAgo(now)
       /\ \A i \in DOMAIN request_timestamps_day :
            request_timestamps_day[i] >= DayAgo(now)

\* two requests with tokens went stale together and a third, fresh one
\* stayed behind them: the check removed both stale entries of each minute
\* window
C23_Witness ==
  /\ last_op = "check"
  /\ Len(rec_log) = 3
  /\ rec_log[1].t < MinuteAgo(now) /\ rec_log[1].tok > 0
  /\ rec_log[2].t < MinuteAgo(now) /\ rec_log[2].tok > 0
  /\ rec_log[3].t >= MinuteAgo(now) /\ rec_log[3].tok > 0
  /\ request_timestamps_minute = <<rec_log[3].t>>
  /\ token_usage_minute = <<<<rec_log[3].t, rec_log[3].tok>>>>

\* the entries of a window that are not strictly older than the cutoff
NotOlder(q, cutoff) == SelectSeq(q, LAMBDA t : t >= cutoff)

TokensNotOlder(q, cutoff) == SelectSeq(q, LAMBDA e : e[1] >= cutoff)

\* a step that runs check_limits
IsCheckStep == last_op' \in CheckOps /\ (wpc = "check" \/ last_op' = "check")

\* the minute windows keep exactly the entries not strictly older than
\* now - 60 s, and those are the entries counted
MinuteBoundary ==
  /\ request_timestamps_minute' =
       NotOlder(request_timestamps_minute, MinuteAgo(now))
  /\ token_usage_minute' = TokensNotOlder(token_usage_minute, MinuteAgo(now))
  /\ limits_info'.rpm.current = Len(request_timestamps_minute')
  /\ limits_info'.tpm.current = TokenSum(token_usage_minute')

\* C24 (as stated): an entry of a minute window is dropped only when it is
\* strictly older than now - 60 s, an entry exactly 60 s old is retained and
\* counted, and likewise an entry of the day window exactly 24 h old is
\* retained.
C24_PurgeBoundary ==
  [][IsCheckStep =>
       /\ MinuteBoundary
       /\ \A i \in DOMAIN request_timestamps_day :
            request_timestamps_day[i] = DayAgo(now) =>
              \E k \in DOMAIN request_timestamps_day' :
                request_timestamps_day'[k] = request_timestamps_day[i]
    ]_vars

\* C24 (amended): an entry of a minute window is dropped only when it is
\* strictly older than now - 60 s; an entry exactly 60 s old is retained and
\* counted. The day window is emptied when the date is later than
\* day_start's and is otherwise left whole by the 24-hour trim; an entry
\* exactly 24 h old is never retained, because the date has changed by then.
C24_MinuteBoundaryAndDayRollover ==
  [][IsCheckStep =>
       /\ MinuteBoundary
       /\ request_timestamps_day' =
            IF Date(now) > Date(day_start) THEN <<>> ELSE request_timestamps_day
       /\ \A k \in DOMAIN request_timestamps_day' :
            request_timestamps_day'[k] > DayAgo(now)
    ]_vars

\* a check finds one request exactly 24 h old and one request with tokens
\* exactly 60 s old: the second is still counted in both minute windows, the
\* first is gone with the whole day window
C24_Witness ==
  /\ last_op = "check"
  /\ Len(rec_log) = 2
  /\ rec_log[1].t = DayAgo(now)
  /\ rec_log[2].t = MinuteAgo(now) /\ rec_log[2].tok > 0
  /\ request_timestamps_minute = <<MinuteAgo(now)>>
  /\ limits_info.rpm.current = 1
  /\ limits_info.tpm.current = rec_log[2].tok
  /\ limits_info.rpd.current = 0

\* C29: under a non-decreasing clock, right after every check_limits
\* day_start has the calendar date of now and so has every entry of the day
\* window; the 24-hour trim of that check_limits removed nothing, and
\* rpd.current is the number of requests recorded on the date of now and
\* still in the window, a pure calendar-day count.
C29_CalendarDayWindow ==
  [][IsCheckStep =>
       /\ Date(day_start') = Date(now)
       /\ \A k \in DOMAIN request_timestamps_day' :
            Date(request_timestamps_day'[k]) = Date(now)
       /\ LET kept == IF Date(now) > Date(day_start)
                        THEN <<>> ELSE request_timestamps_day
          IN /\ PopStale(kept, DayAgo(now)) = kept
             /\ request_timestamps_day' = kept
       /\ limits_info'.rpd.current = Len(request_timestamps_day')
    ]_vars

\* a request recorded at 00:00:59, after a rollover, is still in the day
\* window at 23:59:59 of the same day
C29_Witness ==
  /\ last_op = "check"
  /\ request_timestamps_day # <<>>
  /\ request_timestamps_day[1] = now - (DaySecs - MinuteSecs)
  /\ Date(request_timestamps_day[1]) = Date(now)
  /\ Date(day_start) = Date(now)
  /\ day_start > rec_log[1].t
  /\ limits_info.rpd.current = Len(request_timestamps_day)

\* the instant of the most recent midnight
LastMidnight(t) == Date(t) * DaySecs

\* the requests recorded since the most recent midnight
RecordedToday == {i \in DOMAIN rec_log : rec_log[i].t >= LastMidnight(now)}

\* the requests recorded since day_start was last set
RecordedSinceDayStart == {i \in DOMAIN rec_log : rec_log[i].ds = day_start}

\* C28 (as stated): at every check_limits, rpd.current is at least the
\* number of record_request calls made since the most recent midnight,
\* including a request recorded after midnight but before the first
\* check_limits of the new day.
C28_RpdNeverUndercounts ==
  last_op \in CheckOps => limits_info.rpd.current >= Cardinality(RecordedToday)

\* C28 (amended): at every check_limits, rpd.current is the number of
\* record_request calls made since day_start was last set, that is since the
\* construction of the limiter or the first check_limits of the current
\* date; it never exceeds the number of calls made since the most recent
\* midnight, and it leaves out the calls made after midnight before that
\* first check_limits.
C28_RpdCountsSinceDayStart ==
  last_op \in CheckOps =>
    /\ limits_info.rpd.current = Cardinality(RecordedSinceDayStart)
    /\ limits_info.rpd.current <= Cardinality(RecordedToday)
    /\ \A i \in RecordedToday \ RecordedSinceDayStart :
         rec_log[i].t <= day_start /\ rec_log[i].ds < LastMidnight(now)

\* one request was recorded at 00:00:59 before the first check of the new
\* day and one after it: the check reports rpd.current = 1 for two requests
\* of the day
C28_Witness ==
  /\ last_op = "check"
  /\ Len(rec_log) = 2
  /\ rec_log[1].t >= LastMidnight(now) /\ rec_log[1].ds < LastMidnight(now)
  /\ rec_log[2].ds = day_start
  /\ Cardinality(RecordedToday) = 2
  /\ limits_info.rpd.current = 1

\* ------------------------------------------------------------------------
\* Responses of the API and the retry loops
\* ------------------------------------------------------------------------
\* C22: every transient failure kind is retried: a network error, a non-2xx
\* response and a response lacking an expected field each cause the step to
\* be attempted again after a backoff, and none is accepted as the result of
\* the step: a step that returned did so on a response that had its field.
C22_EveryFailureRetried ==
  \A i \in DOMAIN step_log :
    step_log[i].result \in {"ok", "lacking"} =>
      /\ step_log[i].result = "ok"
      /\ step_log[i].attempts = step_log[i].fails + 1
      /\ Len(step_log[i].sleeps) = step_log[i].fails

\* ------------------------------------------------------------------------
\* tools/BatchParseAndExtractBylawPDFs.py
\* ------------------------------------------------------------------------
\* the current job is over
JobOver == job >= 1 /\ pc = "idle" /\ phase[job] \in {"done", "failed"}

HasEntry(s, results) ==
  \E i \in DOMAIN step_log :
    step_log[i].step = s /\ step_log[i].result \in results

\* the step that follows entry i of the log of the current job
FollowedBy(i) ==
  IF i < Len(step_log) THEN step_log[i + 1].step ELSE step

\* C30 (as stated): in tools/BatchParseAndExtractBylawPDFs.py a job is failed
\* only through the retry exhaustion of one of its steps: when upload and
\* count-tokens succeed the job goes on to generate-content, and every job
\* that uploaded its file and did not exhaust the retries of a step reaches
\* the delete step, whatever token count was measured.
C30_OnlyExhaustionFails ==
  script = ToolsScript =>
    /\ (job >= 1 /\ phase[job] = "failed") => HasEntry(step, {"exhausted"})
                                              \/ \E s \in CallSteps :
                                                   HasEntry(s, {"exhausted"})
    /\ \A i \in DOMAIN step_log :
         (step_log[i].step = "count" /\ step_log[i].result # "exhausted") =>
           FollowedBy(i) = "extract"
    /\ (/\ JobOver
        /\ HasEntry("upload_bytes", {"ok"})
        /\ ~\E s \in CallSteps : HasEntry(s, {"exhausted"})) =>
         HasEntry("delete", DeleteResults)

\* C30 (amended): in tools/BatchParseAndExtractBylawPDFs.py a job is failed
\* by the retry exhaustion of a step before delete, by an exception outside
\* the retry loops, or by a measured token count above 10000, which ends the
\* job right after count-tokens without generate-content and without delete;
\* when count-tokens succeeds with at most 10000 tokens the job goes on to
\* generate-content, and every job whose result was saved reaches the delete
\* step.
C30_FailureCauses ==
  script = ToolsScript =>
    /\ (job >= 1 /\ phase[job] = "failed") =>
         /\ step_log # <<>>
         /\ step_log[Len(step_log)].result \in {"exhausted", "error", "too_large"}
         /\ step_log[Len(step_log)].step # "delete"
    /\ \A i \in DOMAIN step_log :
         /\ step_log[i].result = "too_large" =>
              /\ step_log[i].step = "count"
              /\ token_count > LargeTokenLimit
              /\ i = Len(step_log)
              /\ phase[job] = "failed"
              /\ step_log[i].fails = step_log[i].attempts - 1
         /\ (step_log[i].step = "count" /\ step_log[i].result = "ok") =>
              /\ token_count <= LargeTokenLimit
              /\ FollowedBy(i) = "extract"
    /\ (JobOver /\ HasEntry("persist", {"ok"})) =>
         HasEntry("delete", DeleteResults)

\* a document of more than 10000 tokens: upload and count-tokens succeeded
\* at their first attempt, and the job is failed with neither generate-content
\* nor delete
C30_Witness ==
  /\ script = ToolsScript
  /\ JobOver
  /\ phase[job] = "failed"
  /\ token_count > LargeTokenLimit
  /\ Len(step_log) = 3
  /\ \A i \in DOMAIN step_log : step_log[i].fails = 0
  /\ step_log[3].step = "count" /\ step_log[3].result = "too_large"
  /\ ~HasEntry("delete", DeleteResults)

\* ------------------------------------------------------------------------
\* Quotas and the calls the runner issues
\* ------------------------------------------------------------------------
\* C26: with rpm_limit >= 1 and rpd_limit >= 1, in every state reachable by
\* running the batch runner, the rpm.current reported by check_limits is at
\* most rpm_limit and the rpd.current at most rpd_limit: no request is
\* recorded unless wait_if_needed has returned since the previous one.
C26_ReportedCountsWithinLimits ==
  (last_op \in CheckOps /\ rpm_limit >= 1 /\ rpd_limit >= 1) =>
    /\ limits_info.rpm.current <= rpm_limit
    /\ limits_info.rpd.current <= rpd_limit

\* the HTTP attempts issued in the 60 seconds that end at instant t
IssuedInMinuteTo(t) ==
  {i \in DOMAIN http_attempts :
     http_attempts[i] > t - MinuteSecs /\ http_attempts[i] <= t}

\* the HTTP attempts issued on the calendar date of instant t
IssuedOnDateOf(t) ==
  {i \in DOMAIN http_attempts : Date(http_attempts[i]) = Date(t)}

\* C25: whatever the pattern of transient failures, the HTTP attempts the
\* runner issues, successful or failed, number at most rpm_limit within any
\* rolling 60 seconds and at most rpd_limit within any calendar day.
C25_IssuedCallsWithinQuota ==
  \A k \in DOMAIN http_attempts :
    /\ Cardinality(IssuedInMinuteTo(http_attempts[k])) <= rpm_limit
    /\ Cardinality(IssuedOnDateOf(http_attempts[k])) <= rpd_limit

\* C27: with tpm_limit >= 1, the tpm.current reported by check_limits, the
\* token total recorded within the last minute, is at most tpm_limit:
\* wait_if_needed holds a generate-content call back when its measured token
\* count would take the total of the minute past the limit.
C27_TokenTotalWithinLimit ==
  (last_op \in CheckOps /\ tpm_limit >= 1) =>
    limits_info.tpm.current <= tpm_limit

====
